---- MODULE Spec2Model ----
(***************************************************************************)
(* Model of examples/rename_htmlimg.py: the filename parser, the filename  *)
(* generator and the recursive rename of a directory tree.                 *)
(*                                                                         *)
(* A filename is a sequence of characters.  A printable ASCII character is  *)
(* the one-character string, the line feed is "\n", and any other          *)
(* character is the string "U+" followed by its code point in hexadecimal  *)
(* ("U+00E9", "U+0663", "U+1D7CE").  A byte of a file name that is not     *)
(* UTF-8 is, as in Python, the character U+DC80 + (byte - 128).            *)
(* A coordinate, once parsed by float(), is an IEEE 754 double: the record *)
(* [neg, m, e] of its sign, its 53-bit significand m (a natural number,    *)
(* 2^52 <= m < 2^53, written as its decimal digits) and the power of two   *)
(* e of its last bit, so that the magnitude is m * 2^e; zero has m = <<0>> *)
(* and e = 0.  The conversions from and to decimal text are computed       *)
(* exactly, on natural numbers of any size.                                *)
(***************************************************************************)
EXTENDS Integers, Sequences, FiniteSets

\* ------------------------------------------------------------------ text

\* The decimal digits other than 0-9 (Unicode category Nd), in runs of ten
\* from the digit zero to the digit nine.
NdBlocks ==
    { <<"U+0660", "U+0661", "U+0662", "U+0663", "U+0664",
        "U+0665", "U+0666", "U+0667", "U+0668", "U+0669">>,
      <<"U+06F0", "U+06F1", "U+06F2", "U+06F3", "U+06F4",
        "U+06F5", "U+06F6", "U+06F7", "U+06F8", "U+06F9">>,
      <<"U+07C0", "U+07C1", "U+07C2", "U+07C3", "U+07C4",
        "U+07C5", "U+07C6", "U+07C7", "U+07C8", "U+07C9">>,
      <<"U+0966", "U+0967", "U+0968", "U+0969", "U+096A",
        "U+096B", "U+096C", "U+096D", "U+096E", "U+096F">>,
      <<"U+09E6", "U+09E7", "U+09E8", "U+09E9", "U+09EA",
        "U+09EB", "U+09EC", "U+09ED", "U+09EE", "U+09EF">>,
      <<"U+0A66", "U+0A67", "U+0A68", "U+0A69", "U+0A6A",
        "U+0A6B", "U+0A6C", "U+0A6D", "U+0A6E", "U+0A6F">>,
      <<"U+0AE6", "U+0AE7", "U+0AE8", "U+0AE9", "U+0AEA",
        "U+0AEB", "U+0AEC", "U+0AED", "U+0AEE", "U+0AEF">>,
      <<"U+0B66", "U+0B67", "U+0B68", "U+0B69", "U+0B6A",
        "U+0B6B", "U+0B6C", "U+0B6D", "U+0B6E", "U+0B6F">>,
      <<"U+0BE6", "U+0BE7", "U+0BE8", "U+0BE9", "U+0BEA",
        "U+0BEB", "U+0BEC", "U+0BED", "U+0BEE", "U+0BEF">>,
      <<"U+0C66", "U+0C67", "U+0C68", "U+0C69", "U+0C6A",
        "U+0C6B", "U+0C6C", "U+0C6D", "U+0C6E", "U+0C6F">>,
      <<"U+0CE6", "U+0CE7", "U+0CE8", "U+0CE9", "U+0CEA",
        "U+0CEB", "U+0CEC", "U+0CED", "U+0CEE", "U+0CEF">>,
      <<"U+0D66", "U+0D67", "U+0D68", "U+0D69", "U+0D6A",
        "U+0D6B", "U+0D6C", "U+0D6D", "U+0D6E", "U+0D6F">>,
      <<"U+0DE6", "U+0DE7", "U+0DE8", "U+0DE9", "U+0DEA",
        "U+0DEB", "U+0DEC", "U+0DED", "U+0DEE", "U+0DEF">>,
      <<"U+0E50", "U+0E51", "U+0E52", "U+0E53", "U+0E54",
        "U+0E55", "U+0E56", "U+0E57", "U+0E58", "U+0E59">>,
      <<"U+0ED0", "U+0ED1", "U+0ED2", "U+0ED3", "U+0ED4",
        "U+0ED5", "U+0ED6", "U+0ED7", "U+0ED8", "U+0ED9">>,
      <<"U+0F20", "U+0F21", "U+0F22", "U+0F23", "U+0F24",
        "U+0F25", "U+0F26", "U+0F27", "U+0F28", "U+0F29">>,
      <<"U+1040", "U+1041", "U+1042", "U+1043", "U+1044",
        "U+1045", "U+1046", "U+1047", "U+1048", "U+1049">>,
      <<"U+1090", "U+1091", "U+1092", "U+1093", "U+1094",
        "U+1095", "U+1096", "U+1097", "U+1098", "U+1099">>,
      <<"U+17E0", "U+17E1", "U+17E2", "U+17E3", "U+17E4",
        "U+17E5", "U+17E6", "U+17E7", "U+17E8", "U+17E9">>,
      <<"U+1810", "U+1811", "U+1812", "U+1813", "U+1814",
        "U+1815", "U+1816", "U+1817", "U+1818", "U+1819">>,
      <<"U+1946", "U+1947", "U+1948", "U+1949", "U+194A",
        "U+194B", "U+194C", "U+194D", "U+194E", "U+194F">>,
      <<"U+19D0", "U+19D1", "U+19D2", "U+19D3", "U+19D4",
        "U+19D5", "U+19D6", "U+19D7", "U+19D8", "U+19D9">>,
      <<"U+1A80", "U+1A81", "U+1A82", "U+1A83", "U+1A84",
        "U+1A85", "U+1A86", "U+1A87", "U+1A88", "U+1A89">>,
      <<"U+1A90", "U+1A91", "U+1A92", "U+1A93", "U+1A94",
        "U+1A95", "U+1A96", "U+1A97", "U+1A98", "U+1A99">>,
      <<"U+1B50", "U+1B51", "U+1B52", "U+1B53", "U+1B54",
        "U+1B55", "U+1B56", "U+1B57", "U+1B58", "U+1B59">>,
      <<"U+1BB0", "U+1BB1", "U+1BB2", "U+1BB3", "U+1BB4",
        "U+1BB5", "U+1BB6", "U+1BB7", "U+1BB8", "U+1BB9">>,
      <<"U+1C40", "U+1C41", "U+1C42", "U+1C43", "U+1C44",
        "U+1C45", "U+1C46", "U+1C47", "U+1C48", "U+1C49">>,
      <<"U+1C50", "U+1C51", "U+1C52", "U+1C53", "U+1C54",
        "U+1C55", "U+1C56", "U+1C57", "U+1C58", "U+1C59">>,
      <<"U+A620", "U+A621", "U+A622", "U+A623", "U+A624",
        "U+A625", "U+A626", "U+A627", "U+A628", "U+A629">>,
      <<"U+A8D0", "U+A8D1", "U+A8D2", "U+A8D3", "U+A8D4",
        "U+A8D5", "U+A8D6", "U+A8D7", "U+A8D8", "U+A8D9">>,
      <<"U+A900", "U+A901", "U+A902", "U+A903", "U+A904",
        "U+A905", "U+A906", "U+A907", "U+A908", "U+A909">>,
      <<"U+A9D0", "U+A9D1", "U+A9D2", "U+A9D3", "U+A9D4",
        "U+A9D5", "U+A9D6", "U+A9D7", "U+A9D8", "U+A9D9">>,
      <<"U+A9F0", "U+A9F1", "U+A9F2", "U+A9F3", "U+A9F4",
        "U+A9F5", "U+A9F6", "U+A9F7", "U+A9F8", "U+A9F9">>,
      <<"U+AA50", "U+AA51", "U+AA52", "U+AA53", "U+AA54",
        "U+AA55", "U+AA56", "U+AA57", "U+AA58", "U+AA59">>,
      <<"U+ABF0", "U+ABF1", "U+ABF2", "U+ABF3", "U+ABF4",
        "U+ABF5", "U+ABF6", "U+ABF7", "U+ABF8", "U+ABF9">>,
      <<"U+FF10", "U+FF11", "U+FF12", "U+FF13", "U+FF14",
        "U+FF15", "U+FF16", "U+FF17", "U+FF18", "U+FF19">>,
      <<"U+104A0", "U+104A1", "U+104A2", "U+104A3", "U+104A4",
        "U+104A5", "U+104A6", "U+104A7", "U+104A8", "U+104A9">>,
      <<"U+10D30", "U+10D31", "U+10D32", "U+10D33", "U+10D34",
        "U+10D35", "U+10D36", "U+10D37", "U+10D38", "U+10D39">>,
      <<"U+11066", "U+11067", "U+11068", "U+11069", "U+1106A",
        "U+1106B", "U+1106C", "U+1106D", "U+1106E", "U+1106F">>,
      <<"U+110F0", "U+110F1", "U+110F2", "U+110F3", "U+110F4",
        "U+110F5", "U+110F6", "U+110F7", "U+110F8", "U+110F9">>,
      <<"U+11136", "U+11137", "U+11138", "U+11139", "U+1113A",
        "U+1113B", "U+1113C", "U+1113D", "U+1113E", "U+1113F">>,
      <<"U+111D0", "U+111D1", "U+111D2", "U+111D3", "U+111D4",
        "U+111D5", "U+111D6", "U+111D7", "U+111D8", "U+111D9">>,
      <<"U+112F0", "U+112F1", "U+112F2", "U+112F3", "U+112F4",
        "U+112F5", "U+112F6", "U+112F7", "U+112F8", "U+112F9">>,
      <<"U+11450", "U+11451", "U+11452", "U+11453", "U+11454",
        "U+11455", "U+11456", "U+11457", "U+11458", "U+11459">>,
      <<"U+114D0", "U+114D1", "U+114D2", "U+114D3", "U+114D4",
        "U+114D5", "U+114D6", "U+114D7", "U+114D8", "U+114D9">>,
      <<"U+11650", "U+11651", "U+11652", "U+11653", "U+11654",
        "U+11655", "U+11656", "U+11657", "U+11658", "U+11659">>,
      <<"U+116C0", "U+116C1", "U+116C2", "U+116C3", "U+116C4",
        "U+116C5", "U+116C6", "U+116C7", "U+116C8", "U+116C9">>,
      <<"U+11730", "U+11731", "U+11732", "U+11733", "U+11734",
        "U+11735", "U+11736", "U+11737", "U+11738", "U+11739">>,
      <<"U+118E0", "U+118E1", "U+118E2", "U+118E3", "U+118E4",
        "U+118E5", "U+118E6", "U+118E7", "U+118E8", "U+118E9">>,
      <<"U+11950", "U+11951", "U+11952", "U+11953", "U+11954",
        "U+11955", "U+11956", "U+11957", "U+11958", "U+11959">>,
      <<"U+11C50", "U+11C51", "U+11C52", "U+11C53", "U+11C54",
        "U+11C55", "U+11C56", "U+11C57", "U+11C58", "U+11C59">>,
      <<"U+11D50", "U+11D51", "U+11D52", "U+11D53", "U+11D54",
        "U+11D55", "U+11D56", "U+11D57", "U+11D58", "U+11D59">>,
      <<"U+11DA0", "U+11DA1", "U+11DA2", "U+11DA3", "U+11DA4",
        "U+11DA5", "U+11DA6", "U+11DA7", "U+11DA8", "U+11DA9">>,
      <<"U+16A60", "U+16A61", "U+16A62", "U+16A63", "U+16A64",
        "U+16A65", "U+16A66", "U+16A67", "U+16A68", "U+16A69">>,
      <<"U+16AC0", "U+16AC1", "U+16AC2", "U+16AC3", "U+16AC4",
        "U+16AC5", "U+16AC6", "U+16AC7", "U+16AC8", "U+16AC9">>,
      <<"U+16B50", "U+16B51", "U+16B52", "U+16B53", "U+16B54",
        "U+16B55", "U+16B56", "U+16B57", "U+16B58", "U+16B59">>,
      <<"U+1D7CE", "U+1D7CF", "U+1D7D0", "U+1D7D1", "U+1D7D2",
        "U+1D7D3", "U+1D7D4", "U+1D7D5", "U+1D7D6", "U+1D7D7">>,
      <<"U+1D7D8", "U+1D7D9", "U+1D7DA", "U+1D7DB", "U+1D7DC",
        "U+1D7DD", "U+1D7DE", "U+1D7DF", "U+1D7E0", "U+1D7E1">>,
      <<"U+1D7E2", "U+1D7E3", "U+1D7E4", "U+1D7E5", "U+1D7E6",
        "U+1D7E7", "U+1D7E8", "U+1D7E9", "U+1D7EA", "U+1D7EB">>,
      <<"U+1D7EC", "U+1D7ED", "U+1D7EE", "U+1D7EF", "U+1D7F0",
        "U+1D7F1", "U+1D7F2", "U+1D7F3", "U+1D7F4", "U+1D7F5">>,
      <<"U+1D7F6", "U+1D7F7", "U+1D7F8", "U+1D7F9", "U+1D7FA",
        "U+1D7FB", "U+1D7FC", "U+1D7FD", "U+1D7FE", "U+1D7FF">>,
      <<"U+1E140", "U+1E141", "U+1E142", "U+1E143", "U+1E144",
        "U+1E145", "U+1E146", "U+1E147", "U+1E148", "U+1E149">>,
      <<"U+1E2F0", "U+1E2F1", "U+1E2F2", "U+1E2F3", "U+1E2F4",
        "U+1E2F5", "U+1E2F6", "U+1E2F7", "U+1E2F8", "U+1E2F9">>,
      <<"U+1E950", "U+1E951", "U+1E952", "U+1E953", "U+1E954",
        "U+1E955", "U+1E956", "U+1E957", "U+1E958", "U+1E959">>,
      <<"U+1FBF0", "U+1FBF1", "U+1FBF2", "U+1FBF3", "U+1FBF4",
        "U+1FBF5", "U+1FBF6", "U+1FBF7", "U+1FBF8", "U+1FBF9">> }

\* The characters of a set of runs.
CharsOf(blocks) == {b[i] : b \in blocks, i \in 1..10}

\* What \d of the patterns matches (the patterns are str patterns, so \d is
\* every Unicode decimal digit) and what float() reads as a digit.
Digits ==
    {"0", "1", "2", "3", "4", "5", "6", "7", "8", "9"} \cup CharsOf(NdBlocks)

\* The value of a decimal digit.
DigitVal(c) ==
    CASE c = "0" -> 0 [] c = "1" -> 1 [] c = "2" -> 2 [] c = "3" -> 3
      [] c = "4" -> 4 [] c = "5" -> 5 [] c = "6" -> 6 [] c = "7" -> 7
      [] c = "8" -> 8 [] c = "9" -> 9
      [] OTHER -> CHOOSE v \in 0..9 : \E b \in NdBlocks : b[v + 1] = c

DigitChar(n) ==
    CASE n = 0 -> "0" [] n = 1 -> "1" [] n = 2 -> "2" [] n = 3 -> "3"
      [] n = 4 -> "4" [] n = 5 -> "5" [] n = 6 -> "6" [] n = 7 -> "7"
      [] n = 8 -> "8" [] n = 9 -> "9"

\* The value of a hexadecimal digit, and of hexadecimal text after acc.
HexVal(h) ==
    CASE h = "A" -> 10 [] h = "B" -> 11 [] h = "C" -> 12
      [] h = "D" -> 13 [] h = "E" -> 14 [] h = "F" -> 15
      [] OTHER -> DigitVal(h)

RECURSIVE HexNumber(_, _)
HexNumber(t, acc) ==
    IF Len(t) = 0 THEN acc ELSE HexNumber(Tail(t), 16 * acc + HexVal(Head(t)))

\* The code point of a character written "U+...", and 0 for the characters
\* written as themselves (all that matters of those is that they are ASCII).
CodePoint(c) == IF Len(c) = 1 THEN 0 ELSE HexNumber(SubSeq(c, 3, Len(c)), 0)

\* A byte that is not UTF-8, as os.fsdecode (surrogateescape) hands it to the
\* program: U+DC80 to U+DCFF.
EscapedByte(cp) == 56448 <= cp /\ cp <= 56575

\* A surrogate code point, U+D800 to U+DFFF.
Surrogate(cp) == 55296 <= cp /\ cp <= 57343

\* The bytes os.fsencode makes of a character: its UTF-8 encoding, or the one
\* byte an escaped byte stands for.
EncodedLen(cp) ==
    IF cp < 128 \/ EscapedByte(cp) THEN 1
    ELSE IF cp < 2048 THEN 2
    ELSE IF cp < 65536 THEN 3
    ELSE 4

\* The characters of a text that are written "U+...", and their code points.
Tokens(text) == {c \in {text[i] : i \in 1..Len(text)} : Len(c) > 1}

Written(text) == {CodePoint(c) : c \in Tokens(text)}

\* os.fsencode(name) fails (UnicodeEncodeError, ValueError for a NUL): the
\* name holds a surrogate that is not an escaped byte, or U+0000.  No entry of
\* a file system has such a name.
Unencodable(name) ==
    \E cp \in Written(name) : cp = 0 \/ (Surrogate(cp) /\ ~EscapedByte(cp))

\* The length of a text whose characters of two bytes or more, of three or
\* more and of four are given.
BytesWith(text, two, three, four) ==
    Len(text) + Cardinality({i \in 1..Len(text) : text[i] \in two})
              + Cardinality({i \in 1..Len(text) : text[i] \in three})
              + Cardinality({i \in 1..Len(text) : text[i] \in four})

\* The length in bytes of the name the system calls are given, which is what
\* the file system limits.
NameBytes(name) ==
    BytesWith(name, {c \in Tokens(name) : EncodedLen(CodePoint(c)) >= 2},
                    {c \in Tokens(name) : EncodedLen(CodePoint(c)) >= 3},
                    {c \in Tokens(name) : EncodedLen(CodePoint(c)) >= 4})

\* More than limit bytes.  A character has at most four, so a name of up to
\* limit / 4 characters is not counted.
LongerThan(name, limit) ==
    4 * Len(name) > limit /\ NameBytes(name) > limit

\* The least and the greatest member of a non-empty set of numbers.
Least(S) == CHOOSE i \in S : \A j \in S : i <= j
Greatest(S) == CHOOSE i \in S : \A j \in S : j <= i

\* str.rfind(c), 1-based; 0 when c does not occur.
RFind(s, c) ==
    LET at == {i \in 1..Len(s) : s[i] = c}
    IN  IF at = {} THEN 0 ELSE Greatest(at)

\* s.replace(c, ''): every occurrence of c removed.
RemoveChar(s, c) == SelectSeq(s, LAMBDA x : x # c)

\* s.replace(c, d): every occurrence of c replaced by d.
ReplaceChar(s, c, d) == [i \in 1..Len(s) |-> IF s[i] = c THEN d ELSE s[i]] \o << >>

\* os.path.splitext on a name without a directory separator: the extension
\* starts at the last dot, unless only dots precede it.
splitext(name) ==
    LET dot == RFind(name, ".")
    IN  IF dot > 0 /\ \E i \in 1..(dot - 1) : name[i] # "."
        THEN [root |-> SubSeq(name, 1, dot - 1), ext |-> SubSeq(name, dot, Len(name))]
        ELSE [root |-> name, ext |-> << >>]

\* pathlib.PurePath.suffix: the text from the last dot, when that dot is neither
\* the first nor the last character of the name.
suffix(name) ==
    LET dot == RFind(name, ".")
    IN  IF dot >= 2 /\ dot <= Len(name) - 1
        THEN SubSeq(name, dot, Len(name))
        ELSE << >>

\* ------------------------------------------------------- natural numbers

\* A natural number of any size is the sequence of its decimal digits (0..9),
\* most significant first and without leading zeros; zero is <<0>>.  The
\* operations work digit by digit, a carry being read off the digits to the
\* right.

\* n zero digits
ZeroDigits(n) == [i \in 1..n |-> 0] \o << >>

\* The number of zeros a sequence of digits starts with.
LeadingZeros(ds) == Least({i \in 1..(Len(ds) + 1) : i > Len(ds) \/ ds[i] # 0}) - 1

\* The digits of a sequence without its trailing zeros.
StripTrailingZeros(ds) == SubSeq(ds, 1, Greatest({i \in 0..Len(ds) : i = 0 \/ ds[i] # 0}))

\* The number a sequence of digits spells.
BigNorm(a) ==
    IF \A i \in 1..Len(a) : a[i] = 0 THEN <<0>>
    ELSE SubSeq(a, Least({i \in 1..Len(a) : a[i] # 0}), Len(a))

\* a < b
BigLess(a, b) ==
    IF Len(a) # Len(b) THEN Len(a) < Len(b)
    ELSE \E j \in 1..Len(a) : a[j] < b[j] /\ \A k \in 1..(j - 1) : a[k] = b[k]

\* a * 2: the carry into a digit is one when the digit to its right is 5 or
\* more.
BigTwice(a) ==
    BigNorm(<<IF a[1] >= 5 THEN 1 ELSE 0>> \o
            [i \in 1..Len(a) |->
                (2 * a[i] + (IF i < Len(a) /\ a[i + 1] >= 5 THEN 1 ELSE 0)) % 10])

\* a * 5: the carry into a digit is half the digit to its right.
BigTimes5(a) ==
    BigNorm(<<a[1] \div 2>> \o
            [i \in 1..Len(a) |->
                (5 * a[i] + (IF i < Len(a) THEN a[i + 1] \div 2 ELSE 0)) % 10])

\* a * k^n for k = 2 or 5, by halving n
BigTimes(a, k) == IF k = 2 THEN BigTwice(a) ELSE BigTimes5(a)

RECURSIVE BigTimesPower(_, _, _)
BigTimesPower(a, k, n) ==
    IF n = 0 \/ a = <<0>> THEN a
    ELSE IF n = 1 THEN BigTimes(a, k)
    ELSE BigTimesPower(BigTimesPower(a, k, n \div 2), k, n - (n \div 2))

\* a * 10^n
BigShift(a, n) == IF a = <<0>> THEN a ELSE a \o ZeroDigits(n)

\* The digits of a with one added at position k and zeros after it.
CarryInto(a, k) ==
    [i \in 1..Len(a) |-> IF i < k THEN a[i] ELSE IF i = k THEN a[i] + 1 ELSE 0] \o << >>

\* a + 1 for digits a, leading zeros allowed: the nines a ends with become
\* zeros and the digit before them goes up by one, a digit 1 being put in front
\* when there is none.
BigPlusOne(a) ==
    IF \A i \in 1..Len(a) : a[i] = 9 THEN <<1>> \o ZeroDigits(Len(a))
    ELSE CarryInto(a, Greatest({i \in 1..Len(a) : a[i] # 9}))

\* a - y for y <= a of the same number of digits: a digit lends one when, to
\* its right, a digit of a is less than that of y after digits that are equal.
Minus(a, y) ==
    BigNorm([i \in 1..Len(a) |->
        (a[i] + 10 - y[i]
           - (IF \E j \in (i + 1)..Len(a) :
                     a[j] < y[j] /\ \A k \in (i + 1)..(j - 1) : a[k] = y[k]
              THEN 1 ELSE 0)) % 10])

\* a - b for b <= a
BigMinus(a, b) == Minus(a, ZeroDigits(Len(a) - Len(b)) \o b)

\* The decimal text of digits, and of a natural number below 10000.
DigitText(ds) == [i \in 1..Len(ds) |-> DigitChar(ds[i])] \o << >>

NatText(n) ==
    DigitText(BigNorm(<<n \div 1000, (n \div 100) % 10, (n \div 10) % 10, n % 10>>))

\* The values of a text of digits.
DigitVals(cs) == [i \in 1..Len(cs) |-> DigitVal(cs[i])] \o << >>

\* ---------------------------------------------------------------- floats

\* Full match of -?\d+\.?\d* : an optional sign, one digit at least, an optional
\* dot, any digits.
IsUnsigned(body) ==
    /\ Len(body) > 0
    /\ body[1] \in Digits
    /\ \A i \in 1..Len(body) : body[i] \in Digits \/ body[i] = "."
    /\ Cardinality({i \in 1..Len(body) : body[i] = "."}) <= 1

IsNumber(s) == IsUnsigned(IF Len(s) > 0 /\ s[1] = "-" THEN Tail(s) ELSE s)

\* 2^52 and 2^53: the significand m of a double satisfies 2^52 <= m < 2^53.
TwoTo52 == <<4, 5, 0, 3, 5, 9, 9, 6, 2, 7, 3, 7, 0, 4, 9, 6>>
TwoTo53 == <<9, 0, 0, 7, 1, 9, 9, 2, 5, 4, 7, 4, 0, 9, 9, 2>>

\* The power of two e with 2^52 <= (a / b) / 2^e < 2^53, and a and b scaled by
\* it: a or b is doubled until 2^52 * b <= a < 2^53 * b; b52 is 2^52 * b.
RECURSIVE Scale(_, _, _, _)
Scale(a, b, b52, e) ==
    IF BigLess(a, b52) THEN Scale(BigTwice(a), b, b52, e - 1)
    ELSE IF ~BigLess(a, BigTwice(b52)) THEN Scale(a, BigTwice(b), BigTwice(b52), e + 1)
    ELSE [a |-> a, b |-> b, e |-> e]

\* How many times b goes into r, counting from d, and what is left of r.
RECURSIVE Fits(_, _, _)
Fits(r, b, d) ==
    IF BigLess(r, b) THEN [d |-> d, r |-> r] ELSE Fits(BigMinus(r, b), b, d + 1)

\* Long division of a by b: the quotient so far q and the remainder so far r,
\* taking the digits of a from position i on.
RECURSIVE Divide(_, _, _, _, _)
RECURSIVE DivideOn(_, _, _, _, _)
Divide(a, b, i, q, r) ==
    IF i > Len(a) THEN [q |-> BigNorm(q), r |-> r]
    ELSE DivideOn(a, b, i, q, Fits(BigNorm(r \o <<a[i]>>), b, 0))

DivideOn(a, b, i, q, f) == Divide(a, b, i + 1, Append(q, f.d), f.r)

\* The quotient and the remainder of s.a by s.b, the quotient being of 16
\* digits (2^52 <= a / b < 2^53).
Quotient(s) ==
    Divide(s.a, s.b, Len(s.a) - 15, << >>,
           IF Len(s.a) > 16 THEN SubSeq(s.a, 1, Len(s.a) - 16) ELSE <<0>>)

\* [m, e] with the significand back in range when rounding took it to 2^53.
Normal(m, e) ==
    IF m = TwoTo53 THEN [m |-> TwoTo52, e |-> e + 1] ELSE [m |-> m, e |-> e]

\* The quotient d of a division by b rounded to nearest, ties to even: up when
\* twice the remainder exceeds b, or equals b with an odd quotient.
RoundNearest(d, b, e) ==
    Normal(IF \/ BigLess(b, BigTwice(d.r))
              \/ BigTwice(d.r) = b /\ d.q[Len(d.q)] % 2 = 1
           THEN BigPlusOne(d.q) ELSE d.q, e)

Rounded(s) == RoundNearest(Quotient(s), s.b, s.e)

\* The double nearest to a / b for a > 0: a and b are first multiplied by the
\* powers of two an estimate est of the exponent asks for.
NearestRatio(a, b, est) ==
    Rounded(Scale(a, b, BigTimesPower(b, 2, 52), est))

NearestFrom(a, b, est) ==
    NearestRatio(IF est < 0 THEN BigTimesPower(a, 2, 0 - est) ELSE a,
                 IF est > 0 THEN BigTimesPower(b, 2, est) ELSE b,
                 est)

\* The exponents of the doubles: a normal double is m * 2^e with
\* 2^52 <= m < 2^53 and MinExponent <= e <= MaxExponent; a subnormal one is
\* m * 2^MinExponent with 0 < m < 2^52.
MinExponent == -1074
MaxExponent == 971

\* A quotient at the exponent of the subnormal doubles: zero when it rounds to
\* nothing.
Tiny(d) == IF d.m = <<0>> THEN [m |-> <<0>>, e |-> 0] ELSE d

\* The double nearest to a / b when it is below the normal range: a / b is
\* rounded to a multiple of 2^MinExponent.
Subnormal(a, b) ==
    Tiny(RoundNearest(Quotient([a |-> BigTimesPower(a, 2, 0 - MinExponent), b |-> b]),
                      b, MinExponent))

\* d, the nearest of the numbers m * 2^e of any exponent, brought into the
\* range of the doubles: infinity (no digits, what float() gives for a numeral
\* too large for a double) above it, a subnormal double or zero below.
Ranged(d, a, b) ==
    IF d.e > MaxExponent THEN [m |-> << >>, e |-> MaxExponent + 1]
    ELSE IF d.e < MinExponent THEN Subnormal(a, b)
    ELSE d

\* The double nearest to n * 10^x for a natural number n > 0, ties to the even
\* significand: [m, e] stands for m * 2^e.  The estimate of the exponent takes
\* 3.321928 for log2(10), rounded down.
Nearest(n, x) ==
    Ranged(NearestFrom(IF x >= 0 THEN BigShift(n, x) ELSE n,
                       IF x >= 0 THEN <<1>> ELSE BigShift(<<1>>, 0 - x),
                       (((Len(n) - 1 + x) * 3321928) \div 1000000) - 1 - 52),
           IF x >= 0 THEN BigShift(n, x) ELSE n,
           IF x >= 0 THEN <<1>> ELSE BigShift(<<1>>, 0 - x))

\* The double [m, e] with a sign.
Signed(neg, d) == [neg |-> neg, m |-> d.m, e |-> d.e]

\* The double of sign neg nearest to n * 10^x.
FloatOf(neg, n, x) ==
    IF n = <<0>> THEN [neg |-> neg, m |-> <<0>>, e |-> 0]
    ELSE Signed(neg, Nearest(n, x))

\* float() of an unsigned numeral: its digits without the dot, times ten to
\* minus the number of digits after the dot.
FloatOfBody(neg, body) ==
    FloatOf(neg, BigNorm(DigitVals(RemoveChar(body, "."))),
            IF RFind(body, ".") = 0 THEN 0 ELSE RFind(body, ".") - Len(body))

\* float(s) for a string IsNumber accepts.
ParseFloat(s) == FloatOfBody(s[1] = "-", IF s[1] = "-" THEN Tail(s) ELSE s)

\* The digits t read with k of them after the decimal point: the digits of the
\* integer part and the digits of the fraction without trailing zeros.
SplitAt(t, k) ==
    IF Len(t) > k
    THEN [ip |-> SubSeq(t, 1, Len(t) - k),
          fp |-> StripTrailingZeros(SubSeq(t, Len(t) - k + 1, Len(t)))]
    ELSE [ip |-> <<0>>, fp |-> StripTrailingZeros(ZeroDigits(k - Len(t)) \o t)]

\* The exact decimal expansion of the magnitude of a double.  For e < 0 the
\* value m / 2^-e is (m * 5^-e) / 10^-e.
Expand(v) ==
    IF v.e >= 0 THEN [ip |-> BigTimesPower(v.m, 2, v.e), fp |-> << >>]
    ELSE SplitAt(BigTimesPower(v.m, 5, 0 - v.e), 0 - v.e)

\* Digits after the decimal point kept by the :.6f conversions.
Precision == 6

\* Whether digits cut off a number round it up: they are more than half a unit
\* of the last digit kept, or exactly half of it and that digit is odd.
RoundsUp(rest, last) ==
    /\ Len(rest) > 0
    /\ \/ rest[1] > 5
       \/ rest[1] = 5 /\ Len(rest) > 1
       \/ rest = <<5>> /\ last % 2 = 1

\* The first n of the digits ds, rounded to nearest by the digits after them,
\* ties to the even digit; one digit more when the carry runs out of them.
RoundTo(ds, n) ==
    IF RoundsUp(SubSeq(ds, n + 1, Len(ds)), ds[n])
    THEN BigPlusOne(SubSeq(ds, 1, n))
    ELSE SubSeq(ds, 1, n)

\* Digits written with the last Precision of them after a decimal point.
Fixed(ds) ==
    DigitText(SubSeq(ds, 1, Len(ds) - Precision)) \o <<".">>
      \o DigitText(SubSeq(ds, Len(ds) - Precision + 1, Len(ds)))

FixedOf(x) ==
    Fixed(RoundTo(x.ip \o x.fp \o ZeroDigits(Precision - Len(x.fp)),
                  Len(x.ip) + Precision))

\* f"{x:.6f}": the sign when negative (also of -0.0), the integer part, and
\* exactly Precision digits of fraction: the exact value of the double rounded
\* to nearest, ties to the even digit.
Format6(v) ==
    (IF v.neg THEN <<"-">> ELSE << >>)
      \o (IF v.m = << >> THEN <<"i", "n", "f">> ELSE FixedOf(Expand(v)))

\* The significant digits of an expansion and the position of its decimal
\* point: the value is 0.d1 d2 ... dk * 10^point.
SignificantOf(x) ==
    IF x.ip # <<0>>
    THEN [digits |-> StripTrailingZeros(x.ip \o x.fp), point |-> Len(x.ip)]
    ELSE [digits |-> SubSeq(x.fp, LeadingZeros(x.fp) + 1, Len(x.fp)),
          point  |-> 0 - LeadingZeros(x.fp)]

\* Whether float() reads d * 10^x back as the double v.
ReadsBack(v, d, x) == Nearest(d, x) = [m |-> v.m, e |-> v.e]

\* Digits d that stand for the first n digits of a number whose decimal point
\* is at point; d has a digit more than n when a carry ran out of them.
Cut(d, n, point) ==
    [digits |-> StripTrailingZeros(d), point |-> point + (Len(d) - n)]

\* The shortest decimal number that float() reads back as the double v, whose
\* significant digits are s: for n = 1, 2, ... the numbers of n digits next to
\* v, below (lo) and above (hi); the first that reads back, and of two the
\* nearer one.
RECURSIVE Shortest(_, _, _)
RECURSIVE ShortestOf(_, _, _, _, _)
Shortest(v, s, n) ==
    IF n >= Len(s.digits) THEN s
    ELSE ShortestOf(v, s, n, SubSeq(s.digits, 1, n), BigPlusOne(SubSeq(s.digits, 1, n)))

RECURSIVE Choice(_, _, _, _, _, _, _)
ShortestOf(v, s, n, lo, hi) ==
    Choice(v, s, n, lo, hi, ReadsBack(v, lo, s.point - n), ReadsBack(v, hi, s.point - n))

Choice(v, s, n, lo, hi, same_lo, same_hi) ==
    IF same_lo /\ same_hi
    THEN Cut(IF RoundsUp(SubSeq(s.digits, n + 1, Len(s.digits)), lo[n]) THEN hi ELSE lo,
             n, s.point)
    ELSE IF same_lo \/ same_hi THEN Cut(IF same_lo THEN lo ELSE hi, n, s.point)
    ELSE Shortest(v, s, n + 1)

\* The exponent of a repr: a sign and two digits at least.
ExponentText(x) ==
    IF x < 0
    THEN <<"e", "-">> \o (IF 0 - x < 10 THEN <<"0">> ELSE << >>) \o NatText(0 - x)
    ELSE <<"e", "+">> \o (IF x < 10 THEN <<"0">> ELSE << >>) \o NatText(x)

\* The digits d of a number whose decimal point is at point, written with an
\* exponent when the point is more than 16 places right of the first digit or
\* more than 3 places left of it, and in positional notation with at least one
\* digit of fraction otherwise.
Notation(d, point) ==
    IF point > 16 \/ point < -3
    THEN <<d[1]>> \o (IF Len(d) > 1 THEN <<".">> \o SubSeq(d, 2, Len(d)) ELSE << >>)
           \o ExponentText(point - 1)
    ELSE IF point <= 0
    THEN <<"0", ".">> \o DigitText(ZeroDigits(0 - point)) \o d
    ELSE IF point >= Len(d)
    THEN d \o DigitText(ZeroDigits(point - Len(d))) \o <<".", "0">>
    ELSE SubSeq(d, 1, point) \o <<".">> \o SubSeq(d, point + 1, Len(d))

NotationOf(s) == Notation(DigitText(s.digits), s.point)

\* f"{x}" (repr of the double): the shortest digits that read back as the same
\* double.
Repr(v) ==
    (IF v.neg THEN <<"-">> ELSE << >>)
      \o (IF v.m = <<0>> THEN <<"0", ".", "0">>
          ELSE IF v.m = << >> THEN <<"i", "n", "f">>
          ELSE NotationOf(Shortest(v, SignificantOf(Expand(v)), 1)))

\* ---------------------------------------------------------------- parser

Str_satellite == <<"s", "a", "t", "e", "l", "l", "i", "t", "e", "_">>
Str_query     == <<"_", "q", "u", "e", "r", "y">>
Str_success   == <<"s", "u", "c", "c", "e", "s", "s">>
Str_failure   == <<"f", "a", "i", "l", "u", "r", "e">>

None == [matched |-> FALSE]

\* The k-th member of a set of numbers, counting from 0 in increasing order.
Nth(P, k) == CHOOSE p \in P : Cardinality({q \in P : q < p}) = k

\* The texts between the members of P, which are positions in s together with
\* 0 and Len(s) + 1.
Between(s, P) ==
    [k \in 1..(Cardinality(P) - 1) |->
        SubSeq(s, Nth(P, k - 1) + 1, Nth(P, k) - 1)] \o << >>

\* s.split(c): the texts between the occurrences of c in s.
Split(s, c) == Between(s, {0, Len(s) + 1} \cup {i \in 1..Len(s) : s[i] = c})

\* The groups of pattern1 from the fields f that commas separate.
groups1(f) ==
    IF Len(f) >= 4 /\ f[1] # << >> /\ IsNumber(f[2]) /\ IsNumber(f[3])
    THEN [matched |-> TRUE, g1 |-> f[1], g2 |-> f[2], g3 |-> f[3]]
    ELSE None

\* re.match(r'^([^,]+),(-?\d+\.?\d*),(-?\d+\.?\d*),', s): the three groups, or
\* None.  No group can hold a comma, so the groups are the text before the
\* first comma and the texts between the next two; what follows the third
\* comma is not looked at.
match1(s) == groups1(Split(s, ","))

\* The groups of pattern2 from the fields f that underscores separate after
\* the prefix.
groups2(prefixed, f) ==
    IF prefixed /\ Len(f) = 2 /\ IsNumber(f[1]) /\ IsNumber(f[2])
    THEN [matched |-> TRUE, g1 |-> f[1], g2 |-> f[2]]
    ELSE None

\* The text a match of pattern2 has to cover: $ matches at the end of the
\* string and also before a line feed that ends it.
UpToDollar(s) ==
    IF Len(s) > 0 /\ s[Len(s)] = "\n" THEN SubSeq(s, 1, Len(s) - 1) ELSE s

\* A full match of satellite_(-?\d+\.?\d*)_(-?\d+\.?\d*) on t.  A number holds
\* no underscore, so what follows the prefix is two numbers that one
\* underscore separates.
fullmatch2(t) ==
    groups2(Len(t) >= Len(Str_satellite) /\ SubSeq(t, 1, Len(Str_satellite)) = Str_satellite,
            Split(SubSeq(t, Len(Str_satellite) + 1, Len(t)), "_"))

\* re.match(r'^satellite_(-?\d+\.?\d*)_(-?\d+\.?\d*)$', s): the two groups, or
\* None.
match2(s) == fullmatch2(UpToDollar(s))

\* Lines 22-32: the dict of a query image.
query_info(image_id, lat, lon, ext) ==
    [matched |-> TRUE, id |-> image_id, lat |-> lat, lon |-> lon,
     is_query |-> TRUE, ext |-> ext]

\* Lines 42-50: the dict of a reference image, whose id is made of the texts
\* of the two floats.
reference_info(lat, lon, ext) ==
    [matched |-> TRUE,
     id |-> ReplaceChar(RemoveChar(Repr(lat) \o <<"_">> \o Repr(lon), "."), "-", "n"),
     lat |-> lat, lon |-> lon, is_query |-> FALSE, ext |-> ext]

\* Lines 21-52 on the two matches.
info_of(m1, m2, ext) ==
    IF m1.matched
    THEN query_info(m1.g1, ParseFloat(m1.g2), ParseFloat(m1.g3), ext)
    ELSE IF m2.matched
    THEN reference_info(ParseFloat(m2.g1), ParseFloat(m2.g2), ext)
    ELSE None

\* parse_filename(filename): the record of id, coordinates, kind and extension,
\* or None when the base name matches neither pattern.
parse_filename(filename) ==
    LET name_without_ext == splitext(filename).root
        ext == splitext(filename).ext
    IN  info_of(match1(name_without_ext), match2(name_without_ext), ext)

\* A generator that separates the fields with commas, as the query pattern
\* does, instead of @.
generate_new_filename_commas(info, is_success) ==
    LET query_suffix == IF info.is_query THEN Str_query ELSE << >>
        status  == IF is_success THEN Str_success ELSE Str_failure
        lat_str == Format6(info.lat)
        lon_str == Format6(info.lon)
    IN  <<"_">> \o info.id \o query_suffix \o <<",">> \o lat_str \o <<",">>
          \o lon_str \o <<",">> \o status \o info.ext

\* generate_new_filename(info, is_success).
generate_new_filename(info, is_success) ==
    LET query_suffix == IF info.is_query THEN Str_query ELSE << >>
        status  == IF is_success THEN Str_success ELSE Str_failure
        lat_str == Format6(info.lat)
        lon_str == Format6(info.lon)
    IN  <<"_">> \o info.id \o query_suffix \o <<"@">> \o lat_str \o <<"@">>
          \o lon_str \o <<"@">> \o status \o info.ext

\* ------------------------------------------------------------ filesystem

\* A path of a directory is the sequence of names from the scan root down; an
\* entry of the tree is [parent, name, kind, target].  A "file" is a regular
\* file, a "dir" a directory, a "link" a symbolic link to the name target of
\* its own directory (ln -s target name), which may or may not be there;
\* "other" is what exists and is none of these: a FIFO, a socket, a device.
\* target is the empty name for what is not a link.
Root == << >>

\* The most links a lookup follows (ELOOP beyond).
SYMLOOP_MAX == 40

\* What a name of a directory leads to now, symbolic links followed: the
\* kind of the entry reached, "ENOENT" when a name on the way is not there,
\* "ELOOP" when the links do not end.
RECURSIVE follow(_, _, _, _)
follow(tree, parent, found, hops) ==
    IF found = {} THEN "ENOENT"
    ELSE IF \E e \in found : e.kind # "link"
    THEN (CHOOSE e \in found : TRUE).kind
    ELSE IF hops = 0 THEN "ELOOP"
    ELSE follow(tree, parent,
                {e \in tree : e.parent = parent
                                /\ e.name = (CHOOSE l \in found : TRUE).target},
                hops - 1)

\* The key of an entry: where it is and what it is called.
PathOf(e) == [parent |-> e.parent, name |-> e.name]

Lookup(tree, parent, name) ==
    {e \in tree : e.parent = parent /\ e.name = name}

leads_to(tree, parent, name) ==
    follow(tree, parent, Lookup(tree, parent, name), SYMLOOP_MAX)

\* What the caller may do with a directory: list it (r), create and remove
\* names in it (w), look names up in it (x).  access holds one record
\* [dir, may] for every directory the caller may not do everything with.
may(access, dir) ==
    IF \E a \in access : a.dir = dir
    THEN (CHOOSE a \in access : a.dir = dir).may
    ELSE {"r", "w", "x"}

\* Names can be looked up in dir: dir and every directory above it, from the
\* scan root down, can be searched.
searchable(access, dir) ==
    \A k \in 0..Len(dir) : "x" \in may(access, SubSeq(dir, 1, k))

\* dir can be opened and listed.
readable(access, dir) ==
    /\ "r" \in may(access, dir)
    /\ \A k \in 0..(Len(dir) - 1) : "x" \in may(access, SubSeq(dir, 1, k))

\* A name of dir can be given another name.
writable(access, dir) ==
    "w" \in may(access, dir) /\ searchable(access, dir)

\* The most bytes a file name may have (NAME_MAX of the file system).
NAME_MAX == 255

\* os.stat(parent / name), following symbolic links in the tree as it is at
\* the time of the call: the kind of what the name leads to, "ENOENT" when it
\* leads to nothing, "ELOOP", "ValueError" when the name cannot be encoded,
\* and "OSError" for the failures pathlib does not take for an answer: a name
\* longer than NAME_MAX (ENAMETOOLONG) and a directory that may not be
\* searched (EACCES, PermissionError).
stat(tree, access, parent, name) ==
    IF Unencodable(name) THEN "ValueError"
    ELSE IF ~searchable(access, parent) \/ LongerThan(name, NAME_MAX) THEN "OSError"
    ELSE leads_to(tree, parent, name)

\* Path.exists(): "True", "False", or "OSError" when it raises.
exists_of(st) ==
    IF st = "OSError" THEN "OSError"
    ELSE IF st \in {"ValueError", "ENOENT", "ELOOP"} THEN "False"
    ELSE "True"

exists(tree, access, parent, name) == exists_of(stat(tree, access, parent, name))

\* Path.is_file(): "True" for a regular file after following links, "False",
\* or "OSError" when it raises.
is_file_of(st) ==
    IF st = "OSError" THEN "OSError"
    ELSE IF st = "file" THEN "True"
    ELSE "False"

is_file(tree, access, parent, name) == is_file_of(stat(tree, access, parent, name))

\* The names a scandir of the directory lists (list(scandir_it)): every entry,
\* whatever its kind.  The selectors of rglob take a directory that may not be
\* listed (PermissionError) for an empty one.
scandir(tree, access, parent) ==
    IF readable(access, parent)
    THEN {e.name : e \in {x \in tree : x.parent = parent}}
    ELSE {}

\* The directories _iterate_directories descends into:
\* entry.is_dir(follow_symlinks=False), of a listing read the same way.
subdirs(tree, access, parent) ==
    IF readable(access, parent)
    THEN {Append(parent, e.name) : e \in {x \in tree : x.parent = parent /\ x.kind = "dir"}}
    ELSE {}

\* A rename that leaves the source in place (a copy).
os_rename_copy(tree, parent, src, dst) ==
    LET moved == {[e EXCEPT !.name = dst] : e \in Lookup(tree, parent, src)}
    IN  (tree \ Lookup(tree, parent, dst)) \cup moved

\* os.rename(src, dst) inside one directory, when it succeeds: the source entry
\* takes the destination name, replacing whatever entry held that name.  A
\* link is moved as a link, with the target it had.
os_rename(tree, parent, src, dst) ==
    LET moved == {[e EXCEPT !.name = dst] : e \in Lookup(tree, parent, src)}
    IN  (tree \ (Lookup(tree, parent, src) \cup Lookup(tree, parent, dst))) \cup moved

image_extensions ==
    { <<".", "j", "p", "g">>, <<".", "j", "p", "e", "g">>, <<".", "p", "n", "g">>,
      <<".", "J", "P", "G">>, <<".", "J", "P", "E", "G">>, <<".", "P", "N", "G">> }

\* file_path.is_file() and <the test of the suffix>: the second is not
\* evaluated unless the first is true.
eligible_of(file, suffix_ok) ==
    IF file = "True" THEN (IF suffix_ok THEN "True" ELSE "False") ELSE file

\* A test of line 100 that takes any suffix.
eligible_any_suffix(tree, access, parent, name) ==
    eligible_of(is_file(tree, access, parent, name), suffix(name) # << >>)

\* The test of line 100: a file whose suffix is one of the image extensions;
\* "OSError" when is_file() raises.
eligible(tree, access, parent, name) ==
    eligible_of(is_file(tree, access, parent, name), suffix(name) \in image_extensions)

\* folder.exists() of line 81, for a folder [name, kind, reachable] named by
\* one path component: kind is what the name leads to ("none": nothing) and
\* reachable says whether the directory it is in may be searched.
root_exists(f) ==
    IF Unencodable(f.name) THEN "False"
    ELSE IF ~f.reachable \/ LongerThan(f.name, NAME_MAX) THEN "OSError"
    ELSE IF f.kind \in {"file", "dir", "other"} THEN "True"
    ELSE "False"

\* ---------------------------------------------------------- standard output

\* print(text) raises UnicodeEncodeError: text holds a surrogate the handler
\* does not encode.
print_raises(errors, text) ==
    \E cp \in Written(text) :
        /\ Surrogate(cp)
        /\ \/ errors = "strict"
           \/ errors = "surrogateescape" /\ ~EscapedByte(cp)

\* The same for a path, which is printed name by name.
print_path_raises(errors, dir) ==
    \E k \in 1..Len(dir) : print_raises(errors, dir[k])

\* --------------------------------------------------------------- the trees

\* a,1,2,x.jpg
N_query1 ==
    <<"a", ",", "1", ",", "2", ",", "x", ".", "j", "p", "g">>
\* a,1.0,2,y.jpg with the 2 written as ARABIC-INDIC DIGIT TWO: the same id and
\* coordinates as N_query1
N_query2 ==
    <<"a", ",", "1", ".", "0", ",", "U+0662", ",", "y", ".", "j", "p", "g">>
\* satellite_-0.5_07.1234567 and a line feed, .png
N_sat ==
    <<"s", "a", "t", "e", "l", "l", "i", "t", "e", "_", "-", "0", ".", "5", "_",
      "0", "7", ".", "1", "2", "3", "4", "5", "6", "7", "\n", ".", "p", "n", "g">>
\* 120 times e with acute accent (two bytes each), then ,1,2,.jpg : 249 bytes,
\* and 277 once normalized
N_long ==
    [i \in 1..120 |-> "U+00E9"] \o <<",", "1", ",", "2", ",", ".", "j", "p", "g">>
\* a,1,2, then the byte FF, .jpg : the same id and coordinates as N_query1
N_raw ==
    <<"a", ",", "1", ",", "2", ",", "U+DCFF", ".", "j", "p", "g">>
\* r and the byte FF : a directory
N_rawdir ==
    <<"r", "U+DCFF">>
\* photo.jpg
N_photo ==
    <<"p", "h", "o", "t", "o", ".", "j", "p", "g">>
\* a,1,2,.Jpg
N_badext ==
    <<"a", ",", "1", ",", "2", ",", ".", "J", "p", "g">>
\* b,1,2,.png
N_dirname ==
    <<"b", ",", "1", ",", "2", ",", ".", "p", "n", "g">>
\* _a_query@1.000000@2.000000@success.jpg : the normalized name of N_query1
N_done ==
    <<"_", "a", "_", "q", "u", "e", "r", "y", "@", "1", ".", "0", "0", "0", "0",
      "0", "0", "@", "2", ".", "0", "0", "0", "0", "0", "0", "@", "s", "u", "c",
      "c", "e", "s", "s", ".", "j", "p", "g">>
\* c,1,2,.jpg : the name of a link
N_link ==
    <<"c", ",", "1", ",", "2", ",", ".", "j", "p", "g">>
\* nowhere : a name no tree holds
N_nowhere ==
    <<"n", "o", "w", "h", "e", "r", "e">>
\* sub
N_sub ==
    <<"s", "u", "b">>

Sub == <<N_sub>>

\* demo-img, the folder of the script's own call
N_root ==
    <<"d", "e", "m", "o", "-", "i", "m", "g">>
\* 300 times a : a folder name no file system takes
N_longroot ==
    [i \in 1..300 |-> "a"] \o << >>
\* d and the byte 80
N_rawroot ==
    <<"d", "U+DC80">>
\* d and a lone surrogate, which no byte string decodes to
N_badroot ==
    <<"d", "U+D800">>

\* The entries: the target of what is not a link is the empty name.
File(parent, name) == [parent |-> parent, name |-> name, kind |-> "file", target |-> << >>]
Dir(parent, name) == [parent |-> parent, name |-> name, kind |-> "dir", target |-> << >>]
Link(parent, name, target) == [parent |-> parent, name |-> name, kind |-> "link", target |-> target]

\* The entries a tree of the model may start with, besides the directory sub.
\* The links: one at a normalized name that leads nowhere, one at a normalized
\* name that leads to a file a call renames, and one with a name of format 1
\* that leads to a normalized name.
Candidates ==
    { File(Root, N_query1),
      File(Root, N_query2),
      File(Root, N_sat),
      File(Root, N_photo),
      File(Root, N_badext),
      Dir(Root, N_dirname),
      File(Root, N_done),
      Dir(Root, N_done),
      Link(Root, N_done, N_nowhere),
      Link(Root, N_done, N_sat),
      Link(Root, N_link, N_done),
      File(Root, N_long),
      File(Root, N_raw),
      Dir(Root, N_rawdir),
      File(<<N_rawdir>>, N_query1),
      File(Sub, N_query1),
      Link(Sub, N_done, N_nowhere) }

\* Most entries a starting tree holds besides sub, most calls in a run of the
\* model, and most directories the caller may not do everything with.
MaxFiles == 2
MaxRuns == 2
MaxRestricted == 1

\* A name the file system takes for an entry.
WellFormedName(name) ==
    /\ Len(name) > 0
    /\ name \notin { <<".">>, <<".", ".">> }
    /\ \A i \in 1..Len(name) : name[i] # "/"
    /\ ~Unencodable(name)
    /\ ~LongerThan(name, NAME_MAX)

\* A tree names each path once, with names the file system takes, and every
\* entry is in the scan root or in a directory of the tree.
WellFormed(tree) ==
    /\ \A e1, e2 \in tree : PathOf(e1) = PathOf(e2) => e1 = e2
    /\ \A e \in tree : WellFormedName(e.name)
    /\ \A e \in tree :
          \/ e.parent = Root
          \/ \E d \in tree : d.kind = "dir" /\ Append(d.parent, d.name) = e.parent

\* A larger tree: two files with names of either format and a link at the
\* normalized name of the first that leads to the second.
Scenarios ==
    { {File(Root, N_query1), File(Root, N_sat), Link(Root, N_done, N_sat)} }

Trees ==
    { t \cup {Dir(Root, N_sub)} :
        t \in Scenarios \cup
               {c \in SUBSET Candidates :
                  /\ Cardinality(c) <= MaxFiles
                  /\ WellFormed(c \cup {Dir(Root, N_sub)})} }

\* The folder of the script's own call, and the folders a run of the model
\* may be called on: a folder that names a directory, a file, a dangling link
\* or nothing, one the caller cannot reach, and names that are too long or
\* hold bytes that are not UTF-8.
MainFolder == [name |-> N_root, kind |-> "dir", reachable |-> TRUE]

Folders ==
    { MainFolder,
      [name |-> N_root,     kind |-> "none",     reachable |-> TRUE],
      [name |-> N_root,     kind |-> "file",     reachable |-> TRUE],
      [name |-> N_root,     kind |-> "dangling", reachable |-> TRUE],
      [name |-> N_root,     kind |-> "dir",      reachable |-> FALSE],
      [name |-> N_longroot, kind |-> "none",     reachable |-> TRUE],
      [name |-> N_rawroot,  kind |-> "none",     reachable |-> TRUE],
      [name |-> N_rawroot,  kind |-> "dir",      reachable |-> TRUE],
      [name |-> N_badroot,  kind |-> "none",     reachable |-> TRUE] }


\* What the caller may do with the scan root and with sub: everything, or not
\* list, not search, not write for at most MaxRestricted of them.
Restrictions(tree) ==
    {[dir |-> d, may |-> m] :
        d \in {Root} \cup {x \in {Sub} : Lookup(tree, Root, N_sub) # {}},
        m \in { {"w", "x"}, {"r", "w"}, {"r", "x"} }}

Accesses(tree) ==
    {a \in SUBSET Restrictions(tree) :
        /\ Cardinality(a) <= MaxRestricted
        /\ \A r1, r2 \in a : r1.dir = r2.dir => r1 = r2}

\* The error handler of sys.stdout, a UTF-8 text stream: "strict",
\* "surrogateescape", or "replace" for the handlers that encode anything.
\* Only with a surrogate in the name of the folder or of an entry do the
\* handlers differ.
HandlersOf(f, tree) ==
    IF \E name \in {f.name} \cup {e.name : e \in tree} :
           \E cp \in Written(name) : Surrogate(cp)
    THEN {"strict", "surrogateescape", "replace"}
    ELSE {"strict"}

\* ----------------------------------------------------------- the loop body

\* What lines 104-113 work out from the name of a file: info (line 104) and,
\* unless info is None, new_filename (line 112) for either value of is_success.
named(name, info) ==
    [name |-> name, info |-> info,
     new  |-> IF info.matched
              THEN [success |-> generate_new_filename(info, TRUE),
                    failure |-> generate_new_filename(info, FALSE)]
              ELSE [success |-> << >>, failure |-> << >>]]

worked_out(names) == {named(n, parse_filename(n)) : n \in names}

\* Both depend on the name alone, so they are worked out once for the names a
\* run of the model can meet: those of the trees it starts with and, call
\* after call, the names line 112 gives to names already met.
RECURSIVE KnownFrom(_, _, _)
RECURSIVE KnownAfter(_, _, _)
KnownFrom(names, rows, calls) ==
    IF calls = 0 THEN rows
    ELSE KnownAfter(worked_out(names \ {t.name : t \in rows}), rows, calls)

KnownAfter(fresh, rows, calls) ==
    KnownFrom({t.new.success : t \in fresh} \cup {t.new.failure : t \in fresh},
              rows \cup fresh, calls - 1)

Known == KnownFrom({c.name : c \in Candidates}, {}, MaxRuns)

\* The locals of one pass of the loop: info and new_filename, from Known or
\* worked out for a name that is not there.
locals_of(rows, is_success) ==
    [info |-> (CHOOSE t \in rows : TRUE).info,
     new_filename |-> IF is_success THEN (CHOOSE t \in rows : TRUE).new.success
                      ELSE (CHOOSE t \in rows : TRUE).new.failure]

found_or_worked_out(rows, name) == IF rows # {} THEN rows ELSE worked_out({name})

loop_locals(name, status) ==
    locals_of(found_or_worked_out({t \in Known : t.name = name}, name),
              status = "success")

\* The test of line 116: new_path.exists() and new_path != file_path.  It
\* raises when exists() does.
taken_of(there, same) ==
    IF there = "True" THEN (IF same THEN "False" ELSE "True") ELSE there

destination_taken(tree, access, parent, name, new_filename) ==
    taken_of(exists(tree, access, parent, new_filename), new_filename = name)

\* Where lines 116-126 lead once the name is parsed: an exception of
\* exists() (line 116) or of a print (line 117, or lines 122-124, which print
\* the directory, the name and the new name, whose characters are those of
\* the name), the skip of line 119, or the rename of lines 129-139.
after_parse(taken, bad_name, bad_parent) ==
    IF taken = "OSError" THEN "raised"
    ELSE IF taken = "True" THEN (IF bad_name THEN "raised" ELSE "collision")
    ELSE IF bad_parent \/ bad_name THEN "raised"
    ELSE "rename"

\* Where the body of the loop leads for a file that passed the test of line
\* 100, b being its info and new_filename: "unparseable" (lines 106-109),
\* "collision" (lines 116-119), "rename" (lines 122-139) or "raised" (an
\* exception of line 107, 116, 117, 122 or 123, none of which is in a try).
loop_branch(tree, access, errors, parent, name, b) ==
    IF ~b.info.matched
    THEN (IF print_raises(errors, name) THEN "raised" ELSE "unparseable")
    ELSE after_parse(destination_taken(tree, access, parent, name, b.new_filename),
                     print_raises(errors, name),
                     print_path_raises(errors, parent))

\* ------------------------------------------------------------------ state

VARIABLES
    fs,             \* the directory tree under folder_path
    access,         \* what the caller may do with its directories
    folder,         \* what folder_path names
    stdout_errors,  \* the error handler of standard output
    pc,             \* "idle", "walk" (inside the for loop), "done" (summary
                    \* printed), "error" (root not found, line 83), "raised"
                    \* (the call ended by an exception after line 91) or
                    \* "root_raised" (by an exception of line 81 or 82)
    dry_run,        \* the arguments of the current call
    default_status,
    total_files,    \* the three counters of lines 89-91
    renamed_files,
    skipped_files,
    stack,          \* rglob: per directory being iterated, its subdirectories
                    \* still to descend into
    cur,            \* rglob: the directory whose entries are being yielded
    snapshot,       \* rglob: the names listed in cur and not yet yielded
    log,            \* the files the current call counted (line 101), in order,
                    \* each with its new name and the branch of the loop body
                    \* that dealt with it
    fs0,            \* history: the tree when the current call started
    prev,           \* history: whether the call before was an execute call,
                    \* its default_status, the files whose rename raised in
                    \* it, the files an exception kept it from and the paths
                    \* its renames created
    run             \* the number of calls so far

vars == <<fs, access, folder, stdout_errors, pc, dry_run, default_status,
          total_files, renamed_files, skipped_files, stack, cur, snapshot, log,
          fs0, prev, run>>

\* The value of cur between two directories: no directory has an empty name.
NoDir == << << >> >>

Statuses == {"success", "failure"}

Init ==
    /\ folder \in Folders
    /\ fs \in IF folder = MainFolder THEN Trees ELSE {{}}
    /\ access \in Accesses(fs)
    /\ stdout_errors \in HandlersOf(folder, fs)
    /\ pc = "idle"
    /\ dry_run = TRUE
    /\ default_status = "success"
    /\ total_files = 0
    /\ renamed_files = 0
    /\ skipped_files = 0
    /\ stack = << >>
    /\ cur = NoDir
    /\ snapshot = {}
    /\ log = << >>
    /\ fs0 = fs
    /\ prev = [exec |-> FALSE, status |-> "success", failed |-> {},
               unreached |-> {}, renamed |-> {}]
    /\ run = 0

\* The files of the current call's log with one of the outcomes.
Logged(outcomes) ==
    {[parent |-> log[i].parent, name |-> log[i].name] :
        i \in {j \in 1..Len(log) : log[j].outcome \in outcomes}}


Outcomes == {"unparseable", "collision", "preview", "renamed", "failed", "raised"}

\* The paths of the tree the call started on that passed the test of line 100
\* then: is_file() answered True, under the modes the directories have, and
\* the suffix is an image extension.  A path the test raises on is not one.
EligibleAtStart ==
    {PathOf(e) : e \in {x \in fs0 : /\ is_file(fs0, access, x.parent, x.name) = "True"
                                     /\ suffix(x.name) \in image_extensions}}

\* What the call that just ended leaves for the next one to be compared with.
Carry ==
    LET exec == pc \in {"done", "raised"} /\ ~dry_run
    IN  [exec      |-> exec,
         status    |-> default_status,
         failed    |-> IF exec THEN Logged({"failed"}) ELSE {},
         unreached |-> IF exec /\ pc = "raised"
                       THEN EligibleAtStart \ Logged(Outcomes \ {"raised"}) ELSE {},
         renamed   |-> IF exec
                       THEN {[parent |-> log[i].parent,
                              name |-> log[i].new_filename] :
                                i \in {j \in 1..Len(log) :
                                          log[j].outcome = "renamed"}}
                       ELSE {}]

\* ---------------------------------------------------------------- actions

\* rename_images_in_folder(folder_path, dry_run, default_status) when line 81
\* or line 82 raises: folder.exists() does (OSError), or the folder does not
\* exist and the print of its name does (UnicodeEncodeError).  The call ends
\* before its counters are created.
CallRootRaised(d, st) ==
    /\ pc # "walk"
    /\ run < MaxRuns
    /\ \/ root_exists(folder) = "OSError"
       \/ root_exists(folder) = "False" /\ print_raises(stdout_errors, folder.name)
    /\ pc' = "root_raised"
    /\ dry_run' = d
    /\ default_status' = st
    /\ run' = run + 1
    /\ prev' = Carry
    /\ log' = << >>
    /\ fs0' = fs
    /\ UNCHANGED <<fs, access, folder, stdout_errors, total_files, renamed_files,
                   skipped_files, stack, cur, snapshot>>

\* The call on a folder that does not exist: lines 79-83, the error is printed
\* and the call returns.
CallRootMissing(d, st) ==
    /\ pc # "walk"
    /\ run < MaxRuns
    /\ root_exists(folder) = "False"
    /\ ~print_raises(stdout_errors, folder.name)
    /\ pc' = "error"
    /\ dry_run' = d
    /\ default_status' = st
    /\ run' = run + 1
    /\ prev' = Carry
    /\ log' = << >>
    /\ fs0' = fs
    /\ UNCHANGED <<fs, access, folder, stdout_errors, total_files, renamed_files,
                   skipped_files, stack, cur, snapshot>>

\* The call on an existing folder when the print of line 94 raises: the
\* counters were zeroed, the loop is not reached.
CallBannerRaised(d, st) ==
    /\ pc # "walk"
    /\ run < MaxRuns
    /\ root_exists(folder) = "True"
    /\ print_raises(stdout_errors, folder.name)
    /\ pc' = "raised"
    /\ dry_run' = d
    /\ default_status' = st
    /\ total_files' = 0
    /\ renamed_files' = 0
    /\ skipped_files' = 0
    /\ stack' = << >>
    /\ cur' = NoDir
    /\ snapshot' = {}
    /\ run' = run + 1
    /\ prev' = Carry
    /\ log' = << >>
    /\ fs0' = fs
    /\ UNCHANGED <<fs, access, folder, stdout_errors>>

\* The call on an existing folder: lines 79-99, the counters are zeroed and
\* rglob starts at the folder when it is a directory; of anything else it
\* yields nothing (select_from: is_dir(parent_path)).
CallStart(d, st) ==
    /\ pc # "walk"
    /\ run < MaxRuns
    /\ root_exists(folder) = "True"
    /\ ~print_raises(stdout_errors, folder.name)
    /\ pc' = "walk"
    /\ dry_run' = d
    /\ default_status' = st
    /\ total_files' = 0
    /\ renamed_files' = 0
    /\ skipped_files' = 0
    /\ stack' = IF folder.kind = "dir" THEN << {Root} >> ELSE << >>
    /\ cur' = NoDir
    /\ snapshot' = {}
    /\ run' = run + 1
    /\ prev' = Carry
    /\ log' = << >>
    /\ fs0' = fs
    /\ UNCHANGED <<fs, access, folder, stdout_errors>>

\* rglob reaches the next directory (_iterate_directories yields it) and
\* _WildcardSelector lists it: the listing is read in full, before any of its
\* names is yielded.
EnterDir ==
    /\ pc = "walk"
    /\ cur = NoDir
    /\ Len(stack) > 0
    /\ \E d \in stack[Len(stack)] :
          /\ cur' = d
          /\ snapshot' = scandir(fs, access, d)
          /\ stack' = [stack EXCEPT ![Len(stack)] = @ \ {d}]
    /\ UNCHANGED <<fs, access, folder, stdout_errors, pc, dry_run, default_status,
                   total_files, renamed_files, skipped_files, log, fs0, prev, run>>

\* The names of the current directory the loop may be handed next.
yieldable == IF pc = "walk" /\ cur # NoDir THEN snapshot ELSE {}

\* A line of the log: the file, the new name line 112 gave it (none when its
\* name was not parsed) and the branch taken.
Entry(n, new_filename, outcome) ==
    [parent |-> cur, name |-> n, new_filename |-> new_filename, outcome |-> outcome]

\* One pass of the loop for a path that fails the test of line 100.
VisitIneligible(n) ==
    /\ n \in yieldable
    /\ eligible(fs, access, cur, n) = "False"
    /\ snapshot' = snapshot \ {n}
    /\ UNCHANGED <<fs, access, folder, stdout_errors, pc, dry_run, default_status,
                   total_files, renamed_files, skipped_files, stack, cur, log, fs0,
                   prev, run>>

\* Line 100: file_path.is_file() raises (the directory may be listed and not
\* searched).  The exception leaves rename_images_in_folder: the file is not
\* counted, no later path is looked at and no summary is printed.
VisitTestRaised(n) ==
    /\ n \in yieldable
    /\ eligible(fs, access, cur, n) = "OSError"
    /\ pc' = "raised"
    /\ stack' = << >>
    /\ cur' = NoDir
    /\ snapshot' = {}
    /\ UNCHANGED <<fs, access, folder, stdout_errors, dry_run, default_status,
                   total_files, renamed_files, skipped_files, log, fs0, prev, run>>

\* Lines 101-109: the name matches neither pattern.
VisitUnparseable(n) ==
    /\ n \in yieldable
    /\ eligible(fs, access, cur, n) = "True"
    /\ \E b \in {loop_locals(n, default_status)} :
          /\ loop_branch(fs, access, stdout_errors, cur, n, b) = "unparseable"
          /\ log' = Append(log, Entry(n, b.new_filename, "unparseable"))
    /\ total_files' = total_files + 1
    /\ skipped_files' = skipped_files + 1
    /\ snapshot' = snapshot \ {n}
    /\ UNCHANGED <<fs, access, folder, stdout_errors, pc, dry_run, default_status,
                   renamed_files, stack, cur, fs0, prev, run>>

\* Lines 101-123 when one of them raises: new_path.exists() (line 116) or a
\* print of the name or of the directory (lines 107, 117, 122, 123).  None is
\* inside the try of lines 130-136, so the exception leaves
\* rename_images_in_folder: the file is counted in total_files only, no later
\* path is looked at and no summary is printed.
VisitRaised(n) ==
    /\ n \in yieldable
    /\ eligible(fs, access, cur, n) = "True"
    /\ \E b \in {loop_locals(n, default_status)} :
          /\ loop_branch(fs, access, stdout_errors, cur, n, b) = "raised"
          /\ log' = Append(log, Entry(n, b.new_filename, "raised"))
    /\ total_files' = total_files + 1
    /\ pc' = "raised"
    /\ stack' = << >>
    /\ cur' = NoDir
    /\ snapshot' = {}
    /\ UNCHANGED <<fs, access, folder, stdout_errors, dry_run, default_status,
                   renamed_files, skipped_files, fs0, prev, run>>

\* Lines 101-119: the destination exists and is not the source.
VisitCollision(n) ==
    /\ n \in yieldable
    /\ eligible(fs, access, cur, n) = "True"
    /\ \E b \in {loop_locals(n, default_status)} :
          /\ loop_branch(fs, access, stdout_errors, cur, n, b) = "collision"
          /\ log' = Append(log, Entry(n, b.new_filename, "collision"))
    /\ total_files' = total_files + 1
    /\ skipped_files' = skipped_files + 1
    /\ snapshot' = snapshot \ {n}
    /\ UNCHANGED <<fs, access, folder, stdout_errors, pc, dry_run, default_status,
                   renamed_files, stack, cur, fs0, prev, run>>

\* A preview that renames all the same.
VisitPreview_Renames(n) ==
    /\ n \in yieldable
    /\ eligible(fs, access, cur, n) = "True"
    /\ \E b \in {loop_locals(n, default_status)} :
          /\ loop_branch(fs, access, stdout_errors, cur, n, b) = "rename"
          /\ fs' = os_rename(fs, cur, n, b.new_filename)
          /\ log' = Append(log, Entry(n, b.new_filename, "preview"))
    /\ dry_run
    /\ total_files' = total_files + 1
    /\ renamed_files' = renamed_files + 1
    /\ snapshot' = snapshot \ {n}
    /\ UNCHANGED <<access, folder, stdout_errors, pc, dry_run, default_status,
                   skipped_files, stack, cur, fs0, prev, run>>

\* Lines 101-139 with dry_run: the rename is shown and counted, not done.
VisitPreview(n) ==
    /\ n \in yieldable
    /\ eligible(fs, access, cur, n) = "True"
    /\ \E b \in {loop_locals(n, default_status)} :
          /\ loop_branch(fs, access, stdout_errors, cur, n, b) = "rename"
          /\ log' = Append(log, Entry(n, b.new_filename, "preview"))
    /\ dry_run
    /\ total_files' = total_files + 1
    /\ renamed_files' = renamed_files + 1
    /\ snapshot' = snapshot \ {n}
    /\ UNCHANGED <<fs, access, folder, stdout_errors, pc, dry_run, default_status,
                   skipped_files, stack, cur, fs0, prev, run>>

\* Lines 101-133 without dry_run, file_path.rename(new_path) returning, which
\* takes a directory the caller may write to.
VisitRenamed(n) ==
    /\ n \in yieldable
    /\ eligible(fs, access, cur, n) = "True"
    /\ \E b \in {loop_locals(n, default_status)} :
          /\ loop_branch(fs, access, stdout_errors, cur, n, b) = "rename"
          /\ fs' = os_rename(fs, cur, n, b.new_filename)
          /\ log' = Append(log, Entry(n, b.new_filename, "renamed"))
    /\ ~dry_run
    /\ writable(access, cur)
    /\ total_files' = total_files + 1
    /\ renamed_files' = renamed_files + 1
    /\ snapshot' = snapshot \ {n}
    /\ UNCHANGED <<access, folder, stdout_errors, pc, dry_run, default_status,
                   skipped_files, stack, cur, fs0, prev, run>>

\* Lines 101-136 without dry_run, file_path.rename(new_path) raising: the
\* operating system may refuse any rename, and refuses it in a directory the
\* caller may not write to.
VisitRenameFailed(n) ==
    /\ n \in yieldable
    /\ eligible(fs, access, cur, n) = "True"
    /\ \E b \in {loop_locals(n, default_status)} :
          /\ loop_branch(fs, access, stdout_errors, cur, n, b) = "rename"
          /\ log' = Append(log, Entry(n, b.new_filename, "failed"))
    /\ ~dry_run
    /\ total_files' = total_files + 1
    /\ skipped_files' = skipped_files + 1
    /\ snapshot' = snapshot \ {n}
    /\ UNCHANGED <<fs, access, folder, stdout_errors, pc, dry_run, default_status,
                   renamed_files, stack, cur, fs0, prev, run>>

\* Every name of the directory was yielded: _iterate_directories lists the
\* directory again, now for its subdirectories.
ScanSubdirs ==
    /\ pc = "walk"
    /\ cur # NoDir
    /\ snapshot = {}
    /\ stack' = Append(stack, subdirs(fs, access, cur))
    /\ cur' = NoDir
    /\ UNCHANGED <<fs, access, folder, stdout_errors, pc, dry_run, default_status,
                   total_files, renamed_files, skipped_files, snapshot, log, fs0,
                   prev, run>>

\* Every subdirectory of a directory was descended into.
LeaveDir ==
    /\ pc = "walk"
    /\ cur = NoDir
    /\ Len(stack) > 0
    /\ stack[Len(stack)] = {}
    /\ stack' = SubSeq(stack, 1, Len(stack) - 1)
    /\ UNCHANGED <<fs, access, folder, stdout_errors, pc, dry_run, default_status,
                   total_files, renamed_files, skipped_files, cur, snapshot, log,
                   fs0, prev, run>>

\* rglob is exhausted: lines 141-150, the summary is printed.
Finish ==
    /\ pc = "walk"
    /\ cur = NoDir
    /\ stack = << >>
    /\ pc' = "done"
    /\ UNCHANGED <<fs, access, folder, stdout_errors, dry_run, default_status,
                   total_files, renamed_files, skipped_files, stack, cur, snapshot,
                   log, fs0, prev, run>>

Next ==
    \/ \E d \in BOOLEAN, st \in Statuses : CallRootRaised(d, st)
    \/ \E d \in BOOLEAN, st \in Statuses : CallRootMissing(d, st)
    \/ \E d \in BOOLEAN, st \in Statuses : CallBannerRaised(d, st)
    \/ \E d \in BOOLEAN, st \in Statuses : CallStart(d, st)
    \/ EnterDir
    \/ \E n \in snapshot : VisitIneligible(n)
    \/ \E n \in snapshot : VisitTestRaised(n)
    \/ \E n \in snapshot : VisitUnparseable(n)
    \/ \E n \in snapshot : VisitRaised(n)
    \/ \E n \in snapshot : VisitCollision(n)
    \/ \E n \in snapshot : VisitPreview(n)
    \/ \E n \in snapshot : VisitRenamed(n)
    \/ \E n \in snapshot : VisitRenameFailed(n)
    \/ ScanSubdirs
    \/ LeaveDir
    \/ Finish

Spec == Init /\ [][Next]_vars

\* ----------------------------------------------------------------- claims

\* The number of lines of the log with one of the outcomes.
Count(outcomes) ==
    Cardinality({i \in 1..Len(log) : log[i].outcome \in outcomes})

\* The entries of the starting tree the claim C9 is about: directories, and
\* files whose suffix is not an image extension.
IneligibleAtStart ==
    {e \in fs0 : e.kind = "dir" \/ (e.kind = "file" /\ suffix(e.name) \notin image_extensions)}

\* The tree holds a file under the name: a regular file, or a symbolic link
\* (the loop counts a link that leads to a regular file and renames the link).
FileAt(tree, parent, name) ==
    \E e \in Lookup(tree, parent, name) : e.kind \in {"file", "link"}

\* The symbolic links of a tree, and whether it holds one under the name.
Links(tree) == {e \in tree : e.kind = "link"}

LinkAt(tree, parent, name) ==
    \E e \in Lookup(tree, parent, name) : e.kind = "link"

\* The destination of a line of the log.
Dest(i) == log[i].new_filename

Parsed(i) == log[i].outcome # "unparseable"

\* A call is under way or has ended, by its summary or by an exception.
InCall == pc \in {"walk", "done", "raised"}

\* C1: in every state of a call (so after each file and when the traversal
\* ends) total_files = renamed_files + skipped_files, and every file counted is
\* in exactly one bucket: renamed_files counts the previewed and renamed files,
\* skipped_files the others.
C1_CountersBalance ==
    /\ total_files = renamed_files + skipped_files
    /\ InCall =>
          /\ total_files = Len(log)
          /\ renamed_files = Count({"preview", "renamed"})
          /\ skipped_files = Count(Outcomes \ {"preview", "renamed"})

\* C2: with dry_run the tree is, at every point of the call, the tree the call
\* started on.
C2_DryRunFrame ==
    (InCall /\ dry_run) => fs = fs0

C2_Witness ==
    /\ pc = "done"
    /\ dry_run
    /\ Count({"preview"}) > 0
    /\ Count({"unparseable", "collision"}) > 0

\* C3: an execute call overwrites nothing: when it ends, every entry of the
\* starting tree is still there under its original or its normalized name, and
\* the tree holds as many entries as before.
C3_NeverOverwrites ==
    (pc = "done" /\ ~dry_run) =>
        /\ Cardinality(fs) = Cardinality(fs0)
        /\ \A e \in fs0 : \E f \in fs :
              /\ f.parent = e.parent
              /\ f.kind = e.kind
              /\ f.target = e.target
              /\ \/ f.name = e.name
                 \/ \E i \in 1..Len(log) :
                       /\ PathOf(e) = [parent |-> log[i].parent, name |-> log[i].name]
                       /\ Parsed(i)
                       /\ f.name = Dest(i)

\* C4: of two files of one directory with the same destination name, in
\* preview mode as in execute mode, once the first is renamed or previewed the
\* second is skipped as a collision.
C4_SecondSourceSkipped ==
    \A i, j \in 1..Len(log) :
        ( /\ i < j
          /\ log[i].parent = log[j].parent
          /\ Parsed(i) /\ Parsed(j)
          /\ Dest(i) = Dest(j)
          /\ log[i].outcome \in {"renamed", "preview"} )
        => log[j].outcome = "collision"

\* C5 as stated: an execute call that follows an execute call renames nothing
\* and leaves the set of paths as it found it.
C5_SecondRunRenamesNothing ==
    (pc = "done" /\ ~dry_run /\ prev.exec) =>
        /\ renamed_files = 0
        /\ fs = fs0

\* C5 as amended: an execute call that follows an execute call never renames
\* a file the first call left with a normalized name, whatever the
\* default_status of either; with the same default_status it renames only
\* files the first call left undecided (their rename raised, or the first call
\* had not dealt with them when an exception ended it), symbolic links, and
\* files whose destination name is held by a symbolic link; so when the first
\* call left no file undecided and the tree holds no symbolic link it renames
\* nothing and the tree is unchanged.
C5_SecondRunRetriesOnly ==
    (InCall /\ ~dry_run /\ prev.exec) =>
        /\ \A i \in 1..Len(log) :
              [parent |-> log[i].parent, name |-> log[i].name] \in prev.renamed
              => log[i].outcome \in {"unparseable", "collision"}
        /\ prev.status = default_status =>
              /\ \A i \in 1..Len(log) :
                    log[i].outcome = "renamed" =>
                       \/ [parent |-> log[i].parent, name |-> log[i].name]
                             \in prev.failed \cup prev.unreached
                       \/ LinkAt(fs0, log[i].parent, log[i].name)
                       \/ LinkAt(fs0, log[i].parent, Dest(i))
              /\ (prev.failed \cup prev.unreached = {} /\ Links(fs0) = {})
                    => (renamed_files = 0 /\ fs = fs0)

C5_Witness ==
    /\ pc = "done"
    /\ ~dry_run
    /\ prev.exec
    /\ prev.status = default_status
    /\ prev.failed \cup prev.unreached = {}
    /\ Links(fs0) = {}
    /\ \E i \in 1..Len(log) :
          [parent |-> log[i].parent, name |-> log[i].name] \in prev.renamed

\* C6: a rename that raises leaves the tree as it was and is counted as
\* skipped, not as renamed; the loop goes on with the names still to come, and
\* a call in which a rename raised ends by reaching the summary and in no
\* other way, every file eligible at the start having been processed and the
\* files whose rename raised being still under their names.
C6_FailureContained ==
    /\ [][(pc = "walk" /\ Count({"failed"})' > Count({"failed"})) =>
             /\ fs' = fs
             /\ skipped_files' = skipped_files + 1
             /\ renamed_files' = renamed_files
             /\ pc' = "walk"
             /\ cur' = cur /\ stack' = stack
             /\ \E n \in snapshot : snapshot' = snapshot \ {n}]_vars
    /\ [][(pc = "walk" /\ Count({"failed"}) > 0) => pc' \in {"walk", "done"}]_vars
    /\ []((pc = "done" /\ Count({"failed"}) > 0) =>
            /\ \A p \in Logged({"failed"}) : FileAt(fs, p.parent, p.name)
            /\ EligibleAtStart \subseteq Logged(Outcomes))

C8_RootNotFound ==
    folder.kind \in {"none", "dangling"} =>
        /\ pc \in {"idle", "error"}
        /\ total_files = 0 /\ renamed_files = 0 /\ skipped_files = 0
        /\ log = << >>
        /\ fs = fs0
        /\ cur = NoDir /\ stack = << >> /\ snapshot = {}

\* C9: a directory, or a file whose suffix is not one of the six extensions,
\* is never counted and never renamed: it stays in the tree as it was, no line
\* of the log names it, and total_files counts the lines of the log only.
C9_IneligibleIgnored ==
    \A e \in IneligibleAtStart :
        /\ e \in fs
        /\ PathOf(e) \notin Logged(Outcomes)
        /\ InCall => total_files = Len(log)

C9_Witness ==
    /\ pc = "done"
    /\ ~dry_run
    /\ File(Root, N_badext) \in fs0
    /\ Dir(Root, N_dirname) \in fs0
    /\ total_files = 0

\* C10: when a call reaches its summary total_files is the number of eligible
\* files the tree held when the call started, and the files counted are those
\* files, each once.
C10_EachFileOnce ==
    pc = "done" =>
        /\ total_files = Cardinality(EligibleAtStart)
        /\ Len(log) = Cardinality(EligibleAtStart)
        /\ Logged(Outcomes) = EligibleAtStart

====
